---- MODULE Spec2Model ----
(***************************************************************************)
(* A model of the best-effort JSON recovery utilities:                     *)
(*   json_parser_optimized.py              (strategy-list parser)          *)
(*   json_parser_performance_optimized.py  (unrolled pipeline and cache)   *)
(*                                                                         *)
(* Text is a sequence of one-character strings.  A Python value is a pair  *)
(* <<tag, payload>>.  The regular-expression substitutions, the repair     *)
(* transform and the JSON decoder are computed character by character, as  *)
(* the library calls compute them.                                         *)
(***************************************************************************)
EXTENDS Integers, Sequences, FiniteSets, TLC

(***************************************************************************)
(* Python values                                                           *)
(***************************************************************************)
PyNone == <<"none", 0>>
PyInt(n) == <<"int", n>>
PyStr(s) == <<"str", s>>
PyBytes(s) == <<"bytes", s>>
PyList(xs) == <<"list", xs>>
\* a dict is the sequence of its <<key, value>> items in insertion order
PyDict(items) == <<"dict", items>>
Tag(x) == x[1]
Payload(x) == x[2]
EmptyDict == PyDict(<< >>)

\* isinstance(x, str)
IsStr(x) == Tag(x) = "str"

\* Python truthiness: bool(x)
Truthy(x) ==
  CASE Tag(x) = "none" -> FALSE
    [] Tag(x) = "int" -> Payload(x) # 0
    [] OTHER -> Len(Payload(x)) > 0

(***************************************************************************)
(* Character classes                                                       *)
(***************************************************************************)
\* str.strip() and the regex class \s
IsSpace(c) == c \in {" ", "\n", "\t", "\r", "\f"}
\* the regex class [\n\t\r]
IsNTR(c) == c \in {"\n", "\t", "\r"}
\* the whitespace json.loads skips between tokens
IsJsonSpace(c) == c \in {" ", "\n", "\t", "\r"}
IsDigit(c) == c \in {"0", "1", "2", "3", "4", "5", "6", "7", "8", "9"}
\* the regex class \w, over the letters the inputs use
IsWord(c) == IsDigit(c) \/ c \in {"a", "b", "l", "n", "u", "x", "z", "_"}
\* a character json.loads rejects inside a string literal
IsControl(c) == c \in {"\n", "\t", "\r", "\f"}

DigitVal(c) ==
  CASE c = "0" -> 0 [] c = "1" -> 1 [] c = "2" -> 2 [] c = "3" -> 3
    [] c = "4" -> 4 [] c = "5" -> 5 [] c = "6" -> 6 [] c = "7" -> 7
    [] c = "8" -> 8 [] c = "9" -> 9

(***************************************************************************)
(* String primitives                                                       *)
(***************************************************************************)
RECURSIVE LStrip(_)
LStrip(s) == IF s # << >> /\ IsSpace(Head(s)) THEN LStrip(Tail(s)) ELSE s

RECURSIVE RStrip(_)
RStrip(s) ==
  IF s # << >> /\ IsSpace(s[Len(s)]) THEN RStrip(SubSeq(s, 1, Len(s) - 1)) ELSE s

\* str.strip()
Strip(s) == RStrip(LStrip(s))

\* str.startswith(('{', '['))  and  str.endswith(('}', ']'))
StartsOpen(s) == s # << >> /\ Head(s) \in {"{", "["}
EndsClose(s) == s # << >> /\ s[Len(s)] \in {"}", "]"}

\* WHITESPACE_PATTERN.sub('', s): re.sub(r'[\n\t\r]', '', s)
RECURSIVE SubNTR(_)
SubNTR(s) ==
  IF s = << >> THEN << >>
  ELSE IF IsNTR(Head(s)) THEN SubNTR(Tail(s))
  ELSE <<Head(s)>> \o SubNTR(Tail(s))

\* MULTIPLE_SPACES_PATTERN.sub(' ', s): re.sub(r'\s+', ' ', s)
RECURSIVE SubSpaces(_)
SubSpaces(s) ==
  IF s = << >> THEN << >>
  ELSE IF IsSpace(Head(s)) THEN <<" ">> \o SubSpaces(LStrip(s))
  ELSE <<Head(s)>> \o SubSpaces(Tail(s))

\* re.sub(r',\s*X', 'X', s) for a closing delimiter X
RECURSIVE SubTrailingComma(_, _)
SubTrailingComma(s, close) ==
  IF s = << >> THEN << >>
  ELSE IF Head(s) = "," /\ LStrip(Tail(s)) # << >> /\ Head(LStrip(Tail(s))) = close
       THEN <<close>> \o SubTrailingComma(Tail(LStrip(Tail(s))), close)
  ELSE <<Head(s)>> \o SubTrailingComma(Tail(s), close)

\* the length of the longest prefix of word characters
RECURSIVE WordRun(_)
WordRun(s) == IF s # << >> /\ IsWord(Head(s)) THEN 1 + WordRun(Tail(s)) ELSE 0

\* UNQUOTED_KEYS.sub(r'"\1":', s): re.sub(r'(\w+):', r'"\1":', s)
RECURSIVE SubUnquotedKeys(_)
SubUnquotedKeys(s) ==
  IF s = << >> THEN << >>
  ELSE IF IsWord(Head(s))
       THEN LET n == WordRun(s)
                rest == SubSeq(s, n + 1, Len(s))
            IN IF rest # << >> /\ Head(rest) = ":"
               THEN <<"\"">> \o SubSeq(s, 1, n) \o <<"\"", ":">>
                      \o SubUnquotedKeys(Tail(rest))
               ELSE SubSeq(s, 1, n) \o SubUnquotedKeys(rest)
  ELSE <<Head(s)>> \o SubUnquotedKeys(Tail(s))

\* s.replace("'", '"')
ReplaceQuotes(s) == [i \in 1..Len(s) |-> IF s[i] = "'" THEN "\"" ELSE s[i]]

(***************************************************************************)
(* The repair transform                                                    *)
(***************************************************************************)
\* a completion that adds both braces as soon as one is missing
BracketPaired(r) ==
  IF ~(StartsOpen(r) /\ EndsClose(r)) THEN <<"{">> \o r \o <<"}">> ELSE r

\* step 4 of repair_json: '{' is prepended and '}' appended, each on its own test
Bracket(r) ==
  IF ~(StartsOpen(r) /\ EndsClose(r))
  THEN LET r1 == IF ~StartsOpen(r) THEN <<"{">> \o r ELSE r
       IN IF ~EndsClose(r1) THEN r1 \o <<"}">> ELSE r1
  ELSE r

\* the four substitutions shared by repair_json and repair_json_fast
Substitutions(s) ==
  ReplaceQuotes(SubUnquotedKeys(
    SubTrailingComma(SubTrailingComma(Strip(s), "}"), "]")))

repair_json(s) ==
  IF s = << >> THEN s ELSE Bracket(Substitutions(s))

\* repair_json_fast brackets only a non-empty repaired text
repair_json_fast(s) ==
  IF s = << >> THEN s
  ELSE LET r == Substitutions(s) IN IF r # << >> THEN Bracket(r) ELSE r

(***************************************************************************)
(* json.loads on text: objects, arrays, string literals without escapes,   *)
(* unsigned integers and null                                              *)
(***************************************************************************)
NoParse == [ok |-> FALSE, val |-> PyNone, pos |-> 0]
Parsed(v, p) == [ok |-> TRUE, val |-> v, pos |-> p]

CharAt(s, i) == IF i >= 1 /\ i <= Len(s) THEN s[i] ELSE "EOF"

RECURSIVE SkipWs(_, _)
SkipWs(s, i) == IF IsJsonSpace(CharAt(s, i)) THEN SkipWs(s, i + 1) ELSE i

\* the index of the closing quote of a string literal whose body starts at i, or 0
RECURSIVE CloseQuote(_, _)
CloseQuote(s, i) ==
  LET c == CharAt(s, i)
  IN IF c = "\"" THEN i
     ELSE IF c = "EOF" \/ IsControl(c) THEN 0
     ELSE CloseQuote(s, i + 1)

ParseString(s, i) ==
  LET j == CloseQuote(s, i + 1)
  IN IF CharAt(s, i) = "\"" /\ j # 0
     THEN Parsed(PyStr(SubSeq(s, i + 1, j - 1)), j + 1)
     ELSE NoParse

RECURSIVE DigitsValue(_, _, _)
DigitsValue(s, i, acc) ==
  IF IsDigit(CharAt(s, i)) THEN DigitsValue(s, i + 1, 10 * acc + DigitVal(s[i]))
  ELSE Parsed(PyInt(acc), i)

\* the number pattern is 0|[1-9]\d* : a leading 0 ends the number
ParseNumber(s, i) ==
  IF CharAt(s, i) = "0" THEN Parsed(PyInt(0), i + 1) ELSE DigitsValue(s, i, 0)

\* d[k] = v on an insertion-ordered dict
RECURSIVE DictSet(_, _, _)
DictSet(items, k, v) ==
  IF items = << >> THEN << <<k, v>> >>
  ELSE IF Head(items)[1] = k THEN << <<k, v>> >> \o Tail(items)
  ELSE <<Head(items)>> \o DictSet(Tail(items), k, v)

RECURSIVE ParseValue(_, _)
RECURSIVE ParseMembers(_, _, _)
RECURSIVE ParseElements(_, _, _)

\* i is at the opening quote of a key
ParseMembers(s, i, items) ==
  LET key == ParseString(s, i)
      c == SkipWs(s, key.pos)
      val == ParseValue(s, SkipWs(s, c + 1))
      e == SkipWs(s, val.pos)
  IN IF ~key.ok \/ CharAt(s, c) # ":" THEN NoParse
     ELSE IF ~val.ok THEN NoParse
     ELSE IF CharAt(s, e) = "}"
          THEN Parsed(PyDict(DictSet(items, Payload(key.val), val.val)), e + 1)
     ELSE IF CharAt(s, e) = ","
          THEN ParseMembers(s, SkipWs(s, e + 1), DictSet(items, Payload(key.val), val.val))
     ELSE NoParse

\* i is at the first character of an element
ParseElements(s, i, xs) ==
  LET val == ParseValue(s, i)
      e == SkipWs(s, val.pos)
  IN IF ~val.ok THEN NoParse
     ELSE IF CharAt(s, e) = "]" THEN Parsed(PyList(Append(xs, val.val)), e + 1)
     ELSE IF CharAt(s, e) = "," THEN ParseElements(s, SkipWs(s, e + 1), Append(xs, val.val))
     ELSE NoParse

ParseValue(s, i) ==
  LET c == CharAt(s, i)
  IN CASE c = "{" ->
            LET j == SkipWs(s, i + 1)
            IN IF CharAt(s, j) = "}" THEN Parsed(EmptyDict, j + 1)
               ELSE ParseMembers(s, j, << >>)
       [] c = "[" ->
            LET j == SkipWs(s, i + 1)
            IN IF CharAt(s, j) = "]" THEN Parsed(PyList(<< >>), j + 1)
               ELSE ParseElements(s, j, << >>)
       [] c = "\"" -> ParseString(s, i)
       [] IsDigit(c) -> ParseNumber(s, i)
       [] c = "n" ->
            IF i + 3 <= Len(s) /\ SubSeq(s, i, i + 3) = <<"n", "u", "l", "l">>
            THEN Parsed(PyNone, i + 4)
            ELSE NoParse
       [] OTHER -> NoParse

\* json.loads(s): [ok |-> FALSE] stands for JSONDecodeError
json_loads(s) ==
  LET r == ParseValue(s, SkipWs(s, 1))
  IN IF r.ok /\ SkipWs(s, r.pos) = Len(s) + 1 THEN r ELSE NoParse

(***************************************************************************)
(* The outcome of a call: the value returned, or the exception raised;     *)
(* loads records whether json.loads was invoked                            *)
(***************************************************************************)
Returned(v, l) == [exc |-> "none", val |-> v, loads |-> l]
Raised(e) == [exc |-> e, val |-> PyNone, loads |-> FALSE]

\* the types with a strip() method; x.strip() raises AttributeError on the others
HasStrip(x) == Tag(x) \in {"str", "bytes"}

\* json.loads(text) inside a handler of (JSONDecodeError, ValueError, TypeError)
LoadsOrNone(s) == LET r == json_loads(s) IN IF r.ok THEN r.val ELSE PyNone

\* json_parser_optimized.json_str_parser
json_str_parser(x) ==
  IF ~Truthy(x) THEN Returned(PyNone, FALSE)
  ELSE IF ~HasStrip(x) THEN Raised("AttributeError")
  ELSE IF Strip(Payload(x)) = << >> THEN Returned(PyNone, FALSE)
  ELSE Returned(LoadsOrNone(Strip(Payload(x))), TRUE)

\* json_parser_performance_optimized.json_str_parser_fast
json_str_parser_fast(x) ==
  IF ~Truthy(x) THEN Returned(PyNone, FALSE)
  ELSE IF ~HasStrip(x) THEN Raised("AttributeError")
  ELSE LET stripped == Strip(Payload(x))
       IN IF stripped # << >> THEN Returned(LoadsOrNone(stripped), TRUE)
          ELSE Returned(PyNone, FALSE)

(***************************************************************************)
(* The unrolled pipelines of the performance module                        *)
(***************************************************************************)
\* json_str_parser_fast on a text: the decoded value, None on failure
Fast(s) == json_str_parser_fast(PyStr(s)).val

\* the first result that is not None, {} when there is none
RECURSIVE FirstResult(_)
FirstResult(rs) ==
  IF rs = << >> THEN EmptyDict
  ELSE IF Head(rs) # PyNone THEN Head(rs)
  ELSE FirstResult(Tail(rs))

\* a pipeline that stops after the repair of the newline-stripped text
optimized_without_deep_cleaning(x) ==
  IF ~IsStr(x) \/ ~Truthy(x) THEN EmptyDict
  ELSE FirstResult(
         <<Fast(Payload(x)), Fast(SubNTR(Payload(x))), Fast(repair_json_fast(Payload(x))),
           Fast(repair_json_fast(SubNTR(Payload(x))))>>)

json_str_parser_all_optimized(x) ==
  IF ~IsStr(x) \/ ~Truthy(x) THEN EmptyDict
  ELSE LET s == Payload(x)
           cleaned_str == SubNTR(s)
           deep_cleaned == Strip(SubSpaces(s))
       IN FirstResult(
            <<Fast(s)>>
            \o (IF cleaned_str # s THEN <<Fast(cleaned_str)>> ELSE << >>)
            \o <<Fast(repair_json_fast(s)), Fast(repair_json_fast(cleaned_str))>>
            \o (IF deep_cleaned # s
                THEN <<Fast(deep_cleaned), Fast(repair_json_fast(deep_cleaned))>>
                ELSE << >>))

json_str_parser_all_refactored(x) ==
  IF ~IsStr(x) THEN EmptyDict
  ELSE LET s == Payload(x)
       IN FirstResult(<<Fast(s), Fast(SubNTR(s)), Fast(repair_json_fast(s)),
                        Fast(repair_json_fast(SubNTR(s)))>>)

(***************************************************************************)
(* Inputs                                                                  *)
(***************************************************************************)
\* the number of custom strategies a caller registers on one parser
MaxCustom == 2
\* a self-registering transform stops registering at this many strategies
MaxStrategies == 6 + MaxCustom

T_obj == <<"{", "\"", "a", "\"", ":", "1", "}">>
T_nl == <<"{", "\"", "a", "\"", ":", "\"", "\n", "\"", "}">>
T_sq == <<"{", "'", "a", "'", ":", "1", "}">>
T_sqnl == <<"{", "'", "a", "'", ":", "\"", "\n", "\"", "}">>
T_ff == <<"{", "\"", "a", "\"", ":", "\f", "1", "}">>
T_sqff == <<"{", "'", "a", "'", ":", "\f", "1", "}">>
T_comma == <<"{", "\"", "a", "\"", ":", "1", ",", "}">>
T_bare == <<"a", ":", " ", "1">>
T_nested == <<"{", "\"", "a", "\"", ":", "[", "1", "]", "}">>
T_list == <<"[", "1", ",", "2", "]">>
T_int == <<"1">>
T_strlit == <<"\"", "x", "\"">>
T_null == <<"n", "u", "l", "l">>
T_bad == <<"x">>
T_blank == <<" ">>
T_empty == << >>
T_z == <<"{", "\"", "z", "\"", ":", "1", "}">>

Texts ==
  {T_obj, T_nl, T_sq, T_sqnl, T_ff, T_sqff, T_comma, T_bare, T_nested, T_list,
   T_int, T_strlit, T_null, T_bad, T_blank, T_empty}

\* None, 123, 0, a list and a bytes object: the values that are not text
NonText == {PyNone, PyInt(123), PyInt(0), PyList(<<PyInt(1)>>), PyBytes(T_obj)}

Values == {PyStr(s) : s \in Texts} \cup NonText

(***************************************************************************)
(* Strategies                                                              *)
(***************************************************************************)
\* a transform's outcome; reg: it called add_custom_strategy on the parser
Out(v) == [exc |-> "none", val |-> v, reg |-> FALSE]

\* the transforms callers register: one that raises, two that return a
\* value that is not text, one that returns fixed JSON text, and one that
\* registers itself again on the parser that is running it
CustomKinds == {"raises", "returns_int", "returns_bytes", "returns_z", "registers"}

\* strategy.processor(s)
Processor(kind, s) ==
  CASE kind = "identity" -> Out(PyStr(s))
    [] kind = "clean" -> Out(PyStr(SubNTR(s)))
    [] kind = "repair" -> Out(PyStr(repair_json(s)))
    [] kind = "clean_repair" -> Out(PyStr(repair_json(SubNTR(s))))
    [] kind = "deep_clean" -> Out(PyStr(Strip(SubSpaces(s))))
    [] kind = "deep_repair" -> Out(PyStr(repair_json(Strip(SubSpaces(s)))))
    [] kind = "raises" -> [exc |-> "ValueError", val |-> PyNone, reg |-> FALSE]
    [] kind = "returns_int" -> Out(PyInt(5))
    [] kind = "returns_bytes" -> Out(PyBytes(T_z))
    [] kind = "returns_z" -> Out(PyStr(T_z))
    [] kind = "registers" -> [exc |-> "none", val |-> PyStr(s), reg |-> TRUE]

\* an apply that answers a failed transform with the text of an empty object
apply_empty_object(kind, s) ==
  LET o == Processor(kind, s) IN IF o.exc # "none" THEN PyStr(<<"{", "}">>) ELSE o.val

\* JSONParsingStrategy.apply: the text is returned unchanged when the transform raises
apply(kind, s) ==
  LET o == Processor(kind, s) IN IF o.exc # "none" THEN PyStr(s) ELSE o.val

Strategy(n, k) == [name |-> n, kind |-> k]

\* JSONParserOptimized.__init__: the six built-in strategies
BuiltIn ==
  <<Strategy("raw", "identity"), Strategy("clean", "clean"),
    Strategy("repair", "repair"), Strategy("clean_repair", "clean_repair"),
    Strategy("deep_clean", "deep_clean"), Strategy("deep_repair", "deep_repair")>>

\* a registration that inserts at the front: self._strategies.insert(0, strategy)
PrependStrategy(list, st) == <<st>> \o list

\* self._strategies.append(strategy)
AppendStrategy(list, st) == Append(list, st)

\* get_strategies
get_strategies(list) == [i \in 1..Len(list) |-> list[i].name]

\* a handler as narrow as the one of json_str_parser
CatchesDecodeErrors(exc) == exc \in {"ValueError", "TypeError", "JSONDecodeError"}

\* the handler of parse is "except Exception"
ParseCatches(exc) == exc \in {"AttributeError", "ValueError", "TypeError", "JSONDecodeError"}

\* chained strategies: each one is handed the output of the one before it
ChainedInput(original_str, processed_str) ==
  IF processed_str = PyNone THEN original_str ELSE processed_str

\* the text parse hands to strategy.apply: original_str
StrategyInput(original_str, processed_str) == original_str

VARIABLES
  strategies,   \* parser._strategies
  registered,   \* the names given to add_custom_strategy, in call order
  pc,           \* "idle", "loop" (inside parse), "done", "raised"
  json_str,     \* the argument of the running parse call
  idx,          \* the position of the list iterator
  processed_str,\* processed_str of the last iteration
  result,       \* the value parse returned
  applied,      \* the strategies whose transform ran in this call, in order
  failed,       \* the strategies tried in this call that gave no result
  raisedAt,     \* the strategies whose transform raised in this call
  winner,       \* the strategy that supplied the result, 0 for none
  n0            \* the number of strategies when the call started

parserVars ==
  <<strategies, registered, pc, json_str, idx, processed_str, result, applied,
    failed, raisedAt, winner, n0>>

\* one call of a function on one argument
VARIABLES
  fn,    \* the function called, "none" before the call
  arg,   \* its argument
  out    \* its outcome

fnVars == <<fn, arg, out>>

\* the cache of the performance module and its one caller
VARIABLES
  heap,   \* the dicts and lists alive, by address
  cache,  \* _parse_cache: text -> the stored object
  held,   \* the value the caller got from its latest call
  last,   \* the latest operation and what it did
  prev    \* the operation before it, as far as the next one is compared with it

cacheVars == <<heap, cache, held, last, prev>>

\* the cache under several callers at once, none of which changes a result
VARIABLES
  shared,   \* _parse_cache: text -> the stored value
  callers   \* each caller's position in json_str_parser_all_cached and its locals

raceVars == <<shared, callers>>

\* the state the parser actions leave alone
notParser == <<fnVars, cacheVars, raceVars>>
\* the state the function calls leave alone
notFn == <<parserVars, cacheVars, raceVars>>
\* the state the cache operations leave alone
notCache == <<parserVars, fnVars, raceVars>>
\* the state the concurrent callers leave alone
notRace == <<parserVars, fnVars, cacheVars>>

InitParser ==
  /\ strategies = BuiltIn
  /\ registered = << >>
  /\ pc = "idle"
  /\ json_str = PyNone
  /\ idx = 0
  /\ processed_str = PyNone
  /\ result = PyNone
  /\ applied = << >>
  /\ failed = {}
  /\ raisedAt = {}
  /\ winner = 0
  /\ n0 = 0

\* the input validation of parse, on a parser whose list is strats
Enter(x, strats) ==
  /\ json_str' = x
  /\ n0' = Len(strats)
  /\ processed_str' = PyNone
  /\ applied' = << >>
  /\ failed' = {}
  /\ raisedAt' = {}
  /\ winner' = 0
  /\ IF ~IsStr(x) \/ ~Truthy(x) \/ Strip(Payload(x)) = << >>
     THEN /\ result' = EmptyDict
          /\ pc' = "done"
          /\ idx' = 0
     ELSE /\ result' = PyNone
          /\ pc' = "loop"
          /\ idx' = 1

\* parser.parse(x) on the parser at hand
parse(x) ==
  /\ pc = "idle"
  /\ Enter(x, strategies)
  /\ UNCHANGED <<strategies, registered>>
  /\ UNCHANGED notParser

\* one iteration of "for strategy in self._strategies", or the end of the loop
parse_step ==
  /\ pc = "loop"
  /\ IF idx > Len(strategies)
     THEN /\ result' = EmptyDict
          /\ pc' = "done"
          /\ UNCHANGED <<strategies, registered, idx, processed_str, applied,
                         failed, raisedAt, winner>>
     ELSE LET kind == strategies[idx].kind
              given == Payload(StrategyInput(json_str, processed_str))
              o == Processor(kind, given)
              text == apply(kind, given)
              r == json_str_parser(text)
              again == o.reg /\ Len(strategies) < MaxStrategies
          IN /\ strategies' =
                  IF again THEN AppendStrategy(strategies, strategies[idx])
                  ELSE strategies
             /\ registered' =
                  IF again THEN Append(registered, strategies[idx].name)
                  ELSE registered
             /\ processed_str' = text
             /\ applied' = Append(applied, idx)
             /\ raisedAt' = IF o.exc # "none" THEN raisedAt \cup {idx} ELSE raisedAt
             /\ IF r.exc # "none"
                THEN /\ pc' = IF ParseCatches(r.exc) THEN "loop" ELSE "raised"
                     /\ idx' = idx + 1
                     /\ failed' = failed \cup {idx}
                     /\ UNCHANGED <<result, winner>>
                ELSE IF r.val # PyNone
                THEN /\ result' = r.val
                     /\ winner' = idx
                     /\ pc' = "done"
                     /\ UNCHANGED <<idx, failed>>
                ELSE /\ idx' = idx + 1
                     /\ failed' = failed \cup {idx}
                     /\ UNCHANGED <<pc, result, winner>>
  /\ UNCHANGED <<json_str, n0>>
  /\ UNCHANGED notParser

\* the caller takes the result; the call's locals are gone
parse_return ==
  /\ pc = "done"
  /\ pc' = "idle"
  /\ json_str' = PyNone
  /\ idx' = 0
  /\ processed_str' = PyNone
  /\ result' = PyNone
  /\ applied' = << >>
  /\ failed' = {}
  /\ raisedAt' = {}
  /\ winner' = 0
  /\ n0' = 0
  /\ UNCHANGED <<strategies, registered>>
  /\ UNCHANGED notParser

\* parser.add_custom_strategy(name, processor) between calls of parse
add_custom_strategy(name, kind) ==
  /\ pc = "idle"
  /\ Len(strategies) < MaxStrategies
  /\ strategies' = AppendStrategy(strategies, Strategy(name, kind))
  /\ registered' = Append(registered, name)
  /\ UNCHANGED <<pc, json_str, idx, processed_str, result, applied, failed,
                 raisedAt, winner, n0>>
  /\ UNCHANGED notParser

\* json_str_parser_all(x): a new parser, then parse
json_str_parser_all(x) ==
  /\ pc = "idle"
  /\ strategies' = BuiltIn
  /\ registered' = << >>
  /\ Enter(x, BuiltIn)
  /\ UNCHANGED notParser

\* the names json_str_parser_all_advanced gives to custom_strategies[i]
CustomName(i) ==
  CASE i = 1 -> "custom1" [] i = 2 -> "custom2" [] i = 3 -> "custom3" [] OTHER -> "customN"

\* parser.add_custom_strategy for each of custom_strategies, in list order
RECURSIVE AddAll(_, _, _)
AddAll(list, kinds, i) ==
  IF i > Len(kinds) THEN list
  ELSE AddAll(AppendStrategy(list, Strategy(CustomName(i), kinds[i])), kinds, i + 1)

\* json_str_parser_all_advanced(x, custom_strategies): a new parser, the
\* custom strategies registered, then parse
json_str_parser_all_advanced(x, kinds) ==
  /\ pc = "idle"
  /\ strategies' = AddAll(BuiltIn, kinds, 1)
  /\ registered' = [i \in 1..Len(kinds) |-> CustomName(i)]
  /\ Enter(x, AddAll(BuiltIn, kinds, 1))
  /\ UNCHANGED notParser

CustomLists == UNION {[1..n -> CustomKinds] : n \in 0..MaxCustom}

(***************************************************************************)
(* Calls of the decode-attempt wrappers on one argument                    *)
(***************************************************************************)
\* the longest text the wrappers are tried on exhaustively
MaxLen == 2

Alphabet == {"{", "}", "[", "]", ",", ":", "'", "\"", "a", "1", " ", "\f"}

SmallTexts == UNION {[1..n -> Alphabet] : n \in 0..MaxLen}

Arguments == Values \cup {PyStr(s) : s \in SmallTexts}

InitFn ==
  /\ fn = "none"
  /\ arg \in Arguments
  /\ out = Returned(PyNone, FALSE)

\* the functions are not under test in this specification
IdleFn ==
  /\ fn = "none"
  /\ arg = PyNone
  /\ out = Returned(PyNone, FALSE)

call_json_str_parser ==
  /\ fn = "none"
  /\ fn' = "json_str_parser"
  /\ out' = json_str_parser(arg)
  /\ UNCHANGED arg
  /\ UNCHANGED notFn

call_json_str_parser_fast ==
  /\ fn = "none"
  /\ fn' = "json_str_parser_fast"
  /\ out' = json_str_parser_fast(arg)
  /\ UNCHANGED arg
  /\ UNCHANGED notFn

(***************************************************************************)
(* Objects: a dict or a list lives at an address; a cell of a container    *)
(* is a scalar value or a reference <<"ref", address>>                     *)
(***************************************************************************)
\* _cache_size_limit, scaled down from 1000
cache_size_limit == 2

\* room for the stored entries, the held value and the value being built
Addr == 1..(2 * cache_size_limit + 4)

FreeSlot == <<"free", << >>>>
Ref(a) == <<"ref", a>>
IsRef(c) == Tag(c) = "ref"

EmptyHeap == [a \in Addr |-> FreeSlot]

\* the address a new object gets
NewAddr(h) == CHOOSE a \in Addr : h[a] = FreeSlot /\ \A b \in Addr : h[b] = FreeSlot => a <= b

\* the cells of an object
Cells(o) ==
  IF Tag(o) = "dict" THEN [i \in 1..Len(Payload(o)) |-> Payload(o)[i][2]]
  ELSE IF Tag(o) = "list" THEN Payload(o)
  ELSE << >>

Refs(cells) == {Payload(cells[i]) : i \in {j \in 1..Len(cells) : IsRef(cells[j])}}

\* the objects reachable from the addresses S
RECURSIVE ReachFrom(_, _)
ReachFrom(h, S) ==
  LET N == S \cup UNION {Refs(Cells(h[a])) : a \in S}
  IN IF N = S THEN S ELSE ReachFrom(h, N)

\* the addresses the cells refer to, in cell order
RECURSIVE RefSeq(_)
RefSeq(cells) ==
  IF cells = << >> THEN << >>
  ELSE IF IsRef(Head(cells)) THEN <<Payload(Head(cells))>> \o RefSeq(Tail(cells))
  ELSE RefSeq(Tail(cells))

\* the objects reachable from todo, each once, in depth-first order
RECURSIVE Visit(_, _, _)
Visit(h, todo, seen) ==
  IF todo = << >> THEN seen
  ELSE IF \E i \in 1..Len(seen) : seen[i] = Head(todo) THEN Visit(h, Tail(todo), seen)
  ELSE Visit(h, RefSeq(Cells(h[Head(todo)])) \o Tail(todo), Append(seen, Head(todo)))

Pos(order, a) == CHOOSE i \in 1..Len(order) : order[i] = a

Renamed(c, order) == IF IsRef(c) THEN Ref(Pos(order, Payload(c))) ELSE c

RenamedObject(o, order) ==
  IF Tag(o) = "dict"
  THEN <<"dict", [i \in 1..Len(Payload(o)) |->
                   <<Payload(o)[i][1], Renamed(Payload(o)[i][2], order)>>]>>
  ELSE <<"list", [i \in 1..Len(Payload(o)) |-> Renamed(Payload(o)[i], order)]>>

\* Objects nothing refers to any more are dropped.  An address is only a
\* name: the live objects are renamed 1, 2, ... in the order given.
Collect(h, order) ==
  [a \in Addr |-> IF a <= Len(order) THEN RenamedObject(h[order[a]], order) ELSE FreeSlot]

RECURSIVE Alloc(_, _)
RECURSIVE AllocCells(_, _, _)
RECURSIVE AllocItems(_, _, _)
RECURSIVE AllocRest(_, _, _)
RECURSIVE AllocRestItems(_, _, _, _)

\* a new object with the cells r.cells, in the heap r.heap
NewObject(tag, r) ==
  [heap |-> [r.heap EXCEPT ![NewAddr(r.heap)] = <<tag, r.cells>>],
   cell |-> Ref(NewAddr(r.heap))]

AllocCells(h, vs, acc) ==
  IF vs = << >> THEN [heap |-> h, cells |-> acc]
  ELSE AllocRest(Alloc(h, Head(vs)), Tail(vs), acc)

\* the elements after the one just built
AllocRest(r, vs, acc) == AllocCells(r.heap, vs, Append(acc, r.cell))

AllocItems(h, items, acc) ==
  IF items = << >> THEN [heap |-> h, cells |-> acc]
  ELSE AllocRestItems(Alloc(h, Head(items)[2]), Head(items)[1], Tail(items), acc)

\* the items after the one just built
AllocRestItems(r, key, items, acc) == AllocItems(r.heap, items, Append(acc, <<key, r.cell>>))

\* a value built by json.loads (or a literal {}): new objects for its dicts and lists
Alloc(h, v) ==
  IF Tag(v) = "list" THEN NewObject("list", AllocCells(h, Payload(v), << >>))
  ELSE IF Tag(v) = "dict" THEN NewObject("dict", AllocItems(h, Payload(v), << >>))
  ELSE [heap |-> h, cell |-> v]

\* the value a cell stands for
RECURSIVE Deref(_, _)
Deref(h, c) ==
  IF ~IsRef(c) THEN c
  ELSE LET o == h[Payload(c)]
       IN IF Tag(o) = "list"
          THEN PyList([i \in 1..Len(Payload(o)) |-> Deref(h, Payload(o)[i])])
          ELSE PyDict([i \in 1..Len(Payload(o)) |->
                         <<Payload(o)[i][1], Deref(h, Payload(o)[i][2])>>])

\* x.copy(): a new dict or list with the same cells; other values have no copy()
copy(h, c) ==
  IF IsRef(c)
  THEN [exc |-> "none", heap |-> [h EXCEPT ![NewAddr(h)] = h[Payload(c)]],
        cell |-> Ref(NewAddr(h))]
  ELSE [exc |-> "AttributeError", heap |-> h, cell |-> c]

(***************************************************************************)
(* The cache                                                               *)
(***************************************************************************)
T_nested_sp == T_nested \o <<" ">>

CacheTextSeq == <<T_nested, T_nested_sp, T_int, T_bad>>

CacheTexts == {CacheTextSeq[i] : i \in 1..Len(CacheTextSeq)}

CacheInputs == {PyStr(s) : s \in CacheTexts} \cup {PyInt(123)}

EmptyCache == [k \in {} |-> PyNone]

\* the stored entries as values
View(h, c) == [k \in DOMAIN c |-> Deref(h, c[k])]
CacheView == View(heap, cache)

\* an operation: for a call its arguments, whether it ran the pipeline, the
\* exception or the value it returned, and the keys stored when it began
NoOp ==
  [op |-> "none", key |-> PyNone, use_cache |-> FALSE, ran |-> FALSE,
   exc |-> "none", val |-> PyNone, keys |-> {}]

\* what is kept of an operation once the next one has happened
Kept(o) == [o EXCEPT !.ran = FALSE]

InitCache ==
  /\ heap = EmptyHeap
  /\ cache = EmptyCache
  /\ held = PyNone
  /\ last = NoOp
  /\ prev = NoOp

\* a size test that lets one entry too many in
HasRoomOffByOne(n) == n <= cache_size_limit

\* len(_parse_cache) < _cache_size_limit
HasRoom(n) == n < cache_size_limit

\* a store under the stripped text
StrippedKey(s) == Strip(s)

\* the key of _parse_cache[json_str]
StoreKey(s) == s

Put(c, k, cell) == [j \in DOMAIN c \cup {k} |-> IF j = k THEN cell ELSE c[j]]

Call(x, u, ran, exc, val) ==
  [op |-> "call", key |-> x, use_cache |-> u, ran |-> ran, exc |-> exc, val |-> val,
   keys |-> DOMAIN cache]

\* the stored objects in key order, then the held value
RootSeq(c, hd) ==
  RefSeq([i \in 1..Len(CacheTextSeq) |->
            IF CacheTextSeq[i] \in DOMAIN c THEN c[CacheTextSeq[i]] ELSE PyNone])
  \o RefSeq(<<hd>>)

\* the state with cache nc and held value c, the objects taken from heap h
Settled(h, nc, c, order) ==
  /\ heap' = Collect(h, order)
  /\ cache' = [k \in DOMAIN nc |-> Renamed(nc[k], order)]
  /\ held' = Renamed(c, order)

Settle(h, nc, c) == Settled(h, nc, c, Visit(h, RootSeq(nc, c), << >>))

\* return _parse_cache[json_str].copy()
Hit(x, use_cache, c) ==
  /\ Settle(c.heap, cache, c.cell)
  /\ last' = Call(x, use_cache, FALSE, "none", Deref(c.heap, c.cell))

\* _parse_cache[json_str] = result.copy(); return result
Store(x, use_cache, value, r, c) ==
  IF c.exc # "none"
  THEN /\ last' = Call(x, use_cache, TRUE, c.exc, PyNone)
       /\ UNCHANGED <<heap, cache, held>>
  ELSE /\ Settle(c.heap, Put(cache, StoreKey(Payload(x)), c.cell), r.cell)
       /\ last' = Call(x, use_cache, TRUE, "none", value)

\* a miss that stores whether or not the cache is in use
MissStoring(x, use_cache, value, r) ==
  IF HasRoom(Cardinality(DOMAIN cache))
  THEN Store(x, use_cache, value, r, copy(r.heap, r.cell))
  ELSE /\ Settle(r.heap, cache, r.cell)
       /\ last' = Call(x, use_cache, TRUE, "none", value)

\* result = json_str_parser_all_optimized(json_str), stored when there is room
Miss(x, use_cache, value, r) ==
  IF use_cache /\ HasRoom(Cardinality(DOMAIN cache))
  THEN Store(x, use_cache, value, r, copy(r.heap, r.cell))
  ELSE /\ Settle(r.heap, cache, r.cell)
       /\ last' = Call(x, use_cache, TRUE, "none", value)

Computed(x, use_cache, value) == Miss(x, use_cache, value, Alloc(heap, value))

\* if not isinstance(json_str, str): return {}
NotString(x, use_cache, r) ==
  /\ Settle(r.heap, cache, r.cell)
  /\ last' = Call(x, use_cache, FALSE, "none", EmptyDict)

\* json_str_parser_all_cached(x, use_cache)
json_str_parser_all_cached(x, use_cache) ==
  /\ prev' = Kept(last)
  /\ IF ~IsStr(x) THEN NotString(x, use_cache, Alloc(heap, EmptyDict))
     ELSE IF use_cache /\ Payload(x) \in DOMAIN cache
     THEN Hit(x, use_cache, copy(heap, cache[Payload(x)]))
     ELSE Computed(x, use_cache, json_str_parser_all_optimized(x))
  /\ UNCHANGED notCache

\* clear_cache()
clear_cache ==
  /\ prev' = Kept(last)
  /\ last' = [NoOp EXCEPT !.op = "clear"]
  /\ Settle(heap, EmptyCache, held)
  /\ UNCHANGED notCache

\* what the caller does to an object: list.append(9), dict["m"] = 9
Mutated(o) ==
  IF Tag(o) = "list" THEN <<"list", Append(Payload(o), PyInt(9))>>
  ELSE <<"dict", DictSet(Payload(o), <<"m">>, PyInt(9))>>

\* the caller mutates the value it holds, at the top or inside; once per object
mutate(a) ==
  /\ a \in ReachFrom(heap, Refs(<<held>>))
  /\ \A i \in 1..Len(Cells(heap[a])) : Cells(heap[a])[i] # PyInt(9)
  /\ heap' = [heap EXCEPT ![a] = Mutated(heap[a])]
  /\ prev' = Kept(last)
  /\ last' = [NoOp EXCEPT !.op = "mutate"]
  /\ UNCHANGED <<cache, held>>
  /\ UNCHANGED notCache

(***************************************************************************)
(* Concurrent callers of json_str_parser_all_cached.  A caller's steps are *)
(* the membership test, the read of the entry, the pipeline, the size test *)
(* and the insert; another caller may run between any two of them.         *)
(***************************************************************************)
\* the callers running at once
NumCallers == 2

Callers == 1..NumCallers

RaceTexts == {T_nested, T_nested_sp, T_obj, T_bad, T_int}

RaceInputs == {PyStr(s) : s \in RaceTexts} \cup {PyInt(123)}

IdleCaller == [pc |-> "idle", json_str |-> PyNone, result |-> PyNone, exc |-> "none"]

InitRace ==
  /\ shared = EmptyCache
  /\ callers = [c \in Callers |-> IdleCaller]

\* caller c is at step p of its call
At(c, p) == callers[c].pc = p

\* caller c goes to step p
Goto(c, p) == callers' = [callers EXCEPT ![c].pc = p]

\* caller c returns v
Return(c, v) == callers' = [callers EXCEPT ![c].pc = "done", ![c].result = v]

\* an exception leaves the call of caller c
Raise(c, e) == callers' = [callers EXCEPT ![c].pc = "raised", ![c].exc = e]

\* x.copy() of a value: dicts and lists have it
HasCopy(v) == Tag(v) \in {"dict", "list"}

\* json_str_parser_all_cached(x): if not isinstance(json_str, str): return {}
race_call(c, x) ==
  /\ callers[c].pc \in {"idle", "done", "raised"}
  /\ callers' = [callers EXCEPT ![c] =
       IF IsStr(x) THEN [pc |-> "test", json_str |-> x, result |-> PyNone, exc |-> "none"]
       ELSE [pc |-> "done", json_str |-> x, result |-> EmptyDict, exc |-> "none"]]
  /\ UNCHANGED shared
  /\ UNCHANGED notRace

\* if use_cache and json_str in _parse_cache
race_test(c) ==
  /\ At(c, "test")
  /\ IF Payload(callers[c].json_str) \in DOMAIN shared THEN Goto(c, "hit") ELSE Goto(c, "compute")
  /\ UNCHANGED shared
  /\ UNCHANGED notRace

\* return _parse_cache[json_str].copy()
race_hit(c) ==
  /\ At(c, "hit")
  /\ IF Payload(callers[c].json_str) \notin DOMAIN shared THEN Raise(c, "KeyError")
     ELSE IF ~HasCopy(shared[Payload(callers[c].json_str)]) THEN Raise(c, "AttributeError")
     ELSE Return(c, shared[Payload(callers[c].json_str)])
  /\ UNCHANGED shared
  /\ UNCHANGED notRace

\* result = json_str_parser_all_optimized(json_str)
race_compute(c) ==
  /\ At(c, "compute")
  /\ callers' = [callers EXCEPT ![c].pc = "size",
                                ![c].result = json_str_parser_all_optimized(callers[c].json_str)]
  /\ UNCHANGED shared
  /\ UNCHANGED notRace

\* if use_cache and len(_parse_cache) < _cache_size_limit
race_size(c) ==
  /\ At(c, "size")
  /\ IF HasRoom(Cardinality(DOMAIN shared)) THEN Goto(c, "insert")
     ELSE Return(c, callers[c].result)
  /\ UNCHANGED shared
  /\ UNCHANGED notRace

\* _parse_cache[json_str] = result.copy(); return result
race_insert(c) ==
  /\ At(c, "insert")
  /\ IF HasCopy(callers[c].result)
     THEN /\ shared' = Put(shared, StoreKey(Payload(callers[c].json_str)), callers[c].result)
          /\ Return(c, callers[c].result)
     ELSE /\ Raise(c, "AttributeError")
          /\ UNCHANGED shared
  /\ UNCHANGED notRace

(***************************************************************************)
(* Specifications                                                          *)
(***************************************************************************)
vars == <<parserVars, fnVars, cacheVars, raceVars>>

\* the strategy-list parser and its wrappers
Init == InitParser /\ IdleFn /\ InitCache /\ InitRace

Next ==
  \/ \E x \in Values : parse(x)
  \/ parse_step
  \/ parse_return
  \/ \E k \in CustomKinds : add_custom_strategy(k, k)
  \/ \E x \in Values : json_str_parser_all(x)
  \/ \E x \in Values, ks \in CustomLists : json_str_parser_all_advanced(x, ks)

Spec == Init /\ [][Next]_vars

\* one call of a decode-attempt wrapper
InitDecode == InitParser /\ InitFn /\ InitCache /\ InitRace

NextDecode ==
  \/ call_json_str_parser
  \/ call_json_str_parser_fast

SpecDecode == InitDecode /\ [][NextDecode]_vars

\* one caller of the cache-enabled entry point
InitCached == InitParser /\ IdleFn /\ InitCache /\ InitRace

NextCached ==
  \/ \E x \in CacheInputs, u \in BOOLEAN : json_str_parser_all_cached(x, u)
  \/ clear_cache
  \/ \E a \in Addr : mutate(a)

SpecCached == InitCached /\ [][NextCached]_vars

\* several callers of the cache-enabled entry point at once
InitConcurrent == InitParser /\ IdleFn /\ InitCache /\ InitRace

NextConcurrent ==
  \/ \E c \in Callers, x \in RaceInputs : race_call(c, x)
  \/ \E c \in Callers : race_test(c)
  \/ \E c \in Callers : race_hit(c)
  \/ \E c \in Callers : race_compute(c)
  \/ \E c \in Callers : race_size(c)
  \/ \E c \in Callers : race_insert(c)

SpecConcurrent == InitConcurrent /\ [][NextConcurrent]_vars

(***************************************************************************)
(* Properties of the strategy-list parser                                  *)
(***************************************************************************)
\* the call at hand got text that is neither empty nor blank
TextCall == IsStr(json_str) /\ Truthy(json_str) /\ Strip(Payload(json_str)) # << >>

\* strategy i, applied to the original text, yields text that decodes
Decodes(i) ==
  LET r == json_str_parser(apply(strategies[i].kind, Payload(json_str)))
  IN r.exc = "none" /\ r.val # PyNone

\* the lowest-index strategy that decodes, 0 when there is none
FirstSuccess ==
  IF \E i \in 1..Len(strategies) : Decodes(i)
  THEN CHOOSE i \in 1..Len(strategies) : Decodes(i) /\ \A j \in 1..(i - 1) : ~Decodes(j)
  ELSE 0

UpTo(n) == [i \in 1..n |-> i]

\* C1: parse and its wrappers never raise, whatever the input and whatever
\* the registered transforms do (raise, return a value that is not text),
\* and parse returns {} when the input is not text, is empty or blank, or
\* no strategy yields text that decodes.
C1_ParseNeverRaises ==
  /\ pc # "raised"
  /\ pc = "done" /\ (~TextCall \/ FirstSuccess = 0) => result = EmptyDict

\* C1 witness: a call on text returned {} after one transform raised and
\* another returned a value that is not text.
C1_Witness ==
  /\ pc = "done" /\ TextCall /\ result = EmptyDict
  /\ raisedAt # {}
  /\ \E i \in failed : strategies[i].kind = "returns_int"

\* C2: the value a parse entry point returns is always a mapping.
C2_ResultIsMapping == pc = "done" => Tag(result) = "dict"

\* C3: every strategy is applied to the original text, in list order; the
\* result is the decode of the lowest-index strategy that succeeds, no later
\* strategy is applied, and input that is itself JSON object text comes back
\* as its decoded structure.
C3_FirstSuccessWins ==
  pc = "done" /\ TextCall =>
    /\ winner = FirstSuccess
    /\ applied = UpTo(IF winner = 0 THEN Len(strategies) ELSE winner)
    /\ winner # 0 =>
         result = json_str_parser(apply(strategies[winner].kind, Payload(json_str))).val
    /\ LET d == json_loads(Payload(json_str))
       IN d.ok /\ Tag(d.val) = "dict" => result = d.val

\* C3 witness: the fourth strategy won with custom strategies configured
\* behind it, and nothing after it ran.
C3_Witness ==
  pc = "done" /\ winner = 4 /\ Len(strategies) > 6 /\ applied = UpTo(4)

\* C4: the strategy list is the six built-ins followed by the custom
\* strategies in registration order, and a custom transform runs only after
\* every built-in and every earlier custom strategy was tried and failed.
C4_CustomAfterBuiltIns ==
  /\ get_strategies(strategies) = get_strategies(BuiltIn) \o registered
  /\ \A k \in 1..Len(applied) :
       /\ applied[k] = k
       /\ k > 6 => \A j \in 1..(k - 1) : j \in failed

\* C4 witness: the second of two custom strategies supplied the result.
C4_Witness ==
  pc = "done" /\ Len(registered) = 2 /\ winner = 8 /\ failed = 1..7

\* C5: a strategy whose transform raises is a failed strategy: nothing
\* propagates, it never supplies the result, and the next strategy is tried.
C5_RaisingStrategyFails ==
  /\ pc # "raised"
  /\ winner \notin raisedAt
  /\ raisedAt \subseteq failed
  /\ pc = "done" =>
       \A i \in raisedAt : i = Len(strategies) \/ \E k \in 1..Len(applied) : applied[k] = i + 1

\* C5 witness: a transform raised and the strategy after it supplied the result.
C5_Witness ==
  pc = "done" /\ winner # 0 /\ (winner - 1) \in raisedAt

(***************************************************************************)
(* Properties of the decode-attempt wrappers                               *)
(***************************************************************************)
\* C6: json_str_parser and json_str_parser_fast never raise; they return
\* the decoded value or None, and for an argument that is not text, is empty
\* or is blank they return None without calling json.loads.
C6_WrappersNeverRaise ==
  fn \in {"json_str_parser", "json_str_parser_fast"} =>
    /\ out.exc = "none"
    /\ IF IsStr(arg) /\ Strip(Payload(arg)) # << >>
       THEN out.val = LoadsOrNone(Strip(Payload(arg)))
       ELSE out.val = PyNone /\ ~out.loads

(***************************************************************************)
(* Properties of the cache-enabled entry point                             *)
(***************************************************************************)
\* the operation was a cache-enabled call on text
CachedCall(o) == o.op = "call" /\ o.use_cache /\ IsStr(o.key)

\* the call began with its text stored
HadKey(o) == Payload(o.key) \in o.keys

\* the call began with the cache holding exactly the limit
WasFull(o) == Cardinality(o.keys) = cache_size_limit

\* the last two operations were cache-enabled calls, nothing in between
TwoCalls == CachedCall(prev) /\ CachedCall(last)

\* C7: mutating a value that json_str_parser_all_cached returned, at the top
\* or in a nested list or mapping, changes no stored cache entry, so a later
\* cached call with the same key returns what it would have returned.
C7_CacheIsolation == [][last'.op = "mutate" => CacheView' = CacheView]_vars

\* C8 as stated: in every cache state, of two consecutive cache-enabled
\* calls with the same text the second returns a result equal to the
\* first's and does not run the repair pipeline.
C8_SecondCallHits ==
  TwoCalls /\ prev.key = last.key
    => ~last.ran /\ prev.exc = "none" /\ last.exc = "none" /\ last.val = prev.val

\* C8 amended: of two consecutive cache-enabled calls with the same text s,
\* begun with s stored or with fewer entries than the limit, the second
\* returns a result equal to the first's without running the pipeline when
\* that result is a mapping or a list (any other result has no copy(): both
\* calls run the pipeline and raise AttributeError); begun with a full cache
\* that lacks s, both calls run the pipeline and return equal results.  Keys
\* are exact: a call on a text that was not stored before a call on another
\* text, equal to it but for surrounding whitespace, runs the pipeline.
C8_HitWhenStored ==
  /\ TwoCalls /\ prev.key = last.key /\ (HadKey(prev) \/ ~WasFull(prev))
       => IF Tag(json_str_parser_all_optimized(last.key)) \in {"dict", "list"}
          THEN ~last.ran /\ prev.exc = "none" /\ last.exc = "none" /\ last.val = prev.val
          ELSE last.ran /\ prev.exc = "AttributeError" /\ last.exc = "AttributeError"
  /\ TwoCalls /\ prev.key = last.key /\ ~HadKey(prev) /\ WasFull(prev)
       => last.ran /\ prev.exc = "none" /\ last.exc = "none" /\ last.val = prev.val
  /\ TwoCalls /\ prev.key # last.key /\ Payload(last.key) \notin prev.keys
       /\ Strip(Payload(prev.key)) = Strip(Payload(last.key))
       => last.ran

\* C8 witness: a first call on nested text missed and stored, the second
\* call on the same text returned the equal value without the pipeline
C8_Witness ==
  /\ TwoCalls /\ prev.key = PyStr(T_nested) /\ last.key = PyStr(T_nested)
  /\ ~HadKey(prev) /\ ~WasFull(prev)
  /\ ~last.ran /\ last.val = json_str_parser_all_optimized(PyStr(T_nested))

\* C9: json_str_parser_all_cached never raises, with the cache in use or
\* bypassed and in every cache state, and returns {} when the input is not
\* text or no strategy succeeds.
C9_CachedNeverRaises ==
  last.op = "call"
    => /\ last.exc = "none"
       /\ ~IsStr(last.key) \/ last.key = PyStr(T_bad) => last.val = EmptyDict

\* what a call leaves when it began with a full cache that lacks its key
FullCacheKept ==
  /\ CachedCall(last)' /\ Payload(last'.key) \notin DOMAIN cache
  /\ Cardinality(DOMAIN cache) = cache_size_limit
  => /\ last'.exc = "none"
     /\ last'.val = json_str_parser_all_optimized(last'.key)
     /\ CacheView' = CacheView

\* C10: after any sequence of json_str_parser_all_cached and clear_cache
\* calls (and of mutations by the caller) the cache holds at most
\* _cache_size_limit entries; a cache-enabled call that begins with the
\* cache holding exactly the limit and lacking its key returns the
\* pipeline's result and leaves every stored entry as it was, with no entry
\* added and none evicted.
C10_CacheBound ==
  /\ [](Cardinality(DOMAIN cache) <= cache_size_limit)
  /\ [][FullCacheKept]_vars

\* C10 witness: a cache-enabled call on a key that was not stored, begun
\* with a full cache, returned the pipeline's result; the cache is as full
C10_Witness ==
  /\ CachedCall(last) /\ WasFull(last) /\ ~HadKey(last)
  /\ last.ran /\ last.exc = "none"
  /\ DOMAIN cache = last.keys

\* a call keeps every stored entry as it is
EntriesKept ==
  last'.op = "call"
    => \A k \in DOMAIN cache : k \in DOMAIN cache' /\ CacheView'[k] = CacheView[k]

\* the cache-enabled call right after clear_cache misses, recomputes and stores
StoresAfterClear ==
  last.op = "clear" /\ CachedCall(last)'
    => /\ last'.ran /\ last'.exc = "none"
       /\ Payload(last'.key) \in DOMAIN cache'
       /\ CacheView'[Payload(last'.key)] = json_str_parser_all_optimized(last'.key)

\* C11: a stored key stays in the cache across every later
\* json_str_parser_all_cached call (hit, miss, full cache or bypass) and no
\* later call overwrites its entry; entries leave only through clear_cache,
\* which leaves the cache empty, and the next cache-enabled call for any
\* key is then a miss that recomputes and stores.
C11_EntryLifecycle ==
  [][/\ EntriesKept
     /\ last'.op = "clear" => DOMAIN cache' = {}
     /\ StoresAfterClear]_vars

(***************************************************************************)
(* Calls of the repair transforms and of the pipelines on one text         *)
(***************************************************************************)
TextArguments == {PyStr(s) : s \in Texts \cup SmallTexts \cup CacheTexts}

InitText ==
  /\ fn = "none"
  /\ arg \in TextArguments
  /\ out = Returned(PyNone, FALSE)

call_repair_json ==
  /\ fn = "none"
  /\ fn' = "repair_json"
  /\ out' = Returned(PyStr(repair_json(Payload(arg))), FALSE)
  /\ UNCHANGED arg
  /\ UNCHANGED notFn

call_repair_json_fast ==
  /\ fn = "none"
  /\ fn' = "repair_json_fast"
  /\ out' = Returned(PyStr(repair_json_fast(Payload(arg))), FALSE)
  /\ UNCHANGED arg
  /\ UNCHANGED notFn

call_json_str_parser_all_optimized ==
  /\ fn = "none"
  /\ fn' = "json_str_parser_all_optimized"
  /\ out' = Returned(json_str_parser_all_optimized(arg), FALSE)
  /\ UNCHANGED arg
  /\ UNCHANGED notFn

call_json_str_parser_all_refactored ==
  /\ fn = "none"
  /\ fn' = "json_str_parser_all_refactored"
  /\ out' = Returned(json_str_parser_all_refactored(arg), FALSE)
  /\ UNCHANGED arg
  /\ UNCHANGED notFn

\* json_str_parser_all_cached(arg), as the self-test calls it
call_json_str_parser_all_cached ==
  /\ arg \in CacheInputs
  /\ json_str_parser_all_cached(arg, TRUE)

\* one call of each function of the performance module on one text
InitPipelines == InitParser /\ InitText /\ InitCache /\ InitRace

NextPipelines ==
  \/ call_repair_json
  \/ call_repair_json_fast
  \/ call_json_str_parser_all_optimized
  \/ call_json_str_parser_all_refactored
  \/ call_json_str_parser_all_cached

SpecPipelines == InitPipelines /\ [][NextPipelines]_vars

\* the strategy-list pipeline with its six built-in strategies on one text
InitBuiltIn == InitParser /\ InitText /\ InitCache /\ InitRace

NextBuiltIn ==
  \/ json_str_parser_all(arg)
  \/ parse_step
  \/ parse_return

SpecBuiltIn == InitBuiltIn /\ [][NextBuiltIn]_vars

(***************************************************************************)
(* Properties of the repair transforms and of the pipelines                *)
(***************************************************************************)
\* C13: for every text, json_str_parser_all_optimized,
\* json_str_parser_all_refactored and json_str_parser_all_cached return
\* equal results, also on texts that decode only once their whitespace runs
\* are collapsed.
C13_VariantsAgree ==
  /\ fn = "json_str_parser_all_refactored" => out.val = json_str_parser_all_optimized(arg)
  /\ last.op = "call" => last.exc = "none" /\ last.val = json_str_parser_all_optimized(arg)

\* the repaired text r with '{' in front exactly when r lacks an opening
\* brace or bracket and '}' behind exactly when r lacks a closing one
Completed(r) ==
  (IF StartsOpen(r) THEN << >> ELSE <<"{">>) \o r \o (IF EndsClose(r) THEN << >> ELSE <<"}">>)

\* a call of a repair transform on text that is not empty returned
RepairCall(f) == fn = f /\ Payload(arg) # << >>

\* C14 as stated: for every text that is not empty, whitespace-only text
\* included, the output of repair_json and of repair_json_fast starts with
\* '{' or '[' and ends with '}' or ']', the braces added independently and
\* only where the repaired text lacks them.
C14_BracketsCompleted ==
  RepairCall("repair_json") \/ RepairCall("repair_json_fast")
    => /\ StartsOpen(Payload(out.val)) /\ EndsClose(Payload(out.val))
       /\ Payload(out.val) = Completed(Substitutions(Payload(arg)))

\* C14 amended: the same for repair_json on every text that is not empty
\* and for repair_json_fast on every text that is not whitespace-only;
\* repair_json_fast returns the empty text for whitespace-only text.
C14_BracketsUnlessBlank ==
  /\ RepairCall("repair_json") \/ (RepairCall("repair_json_fast") /\ Strip(Payload(arg)) # << >>)
       => /\ StartsOpen(Payload(out.val)) /\ EndsClose(Payload(out.val))
          /\ Payload(out.val) = Completed(Substitutions(Payload(arg)))
  /\ RepairCall("repair_json_fast") /\ Strip(Payload(arg)) = << >>
       => out.val = PyStr(<< >>)

\* C14 witness: repair_json_fast closed '[1' with a brace of the other type
C14_Witness ==
  /\ fn = "repair_json_fast" /\ arg = PyStr(<<"[", "1">>)
  /\ out.val = PyStr(<<"[", "1", "}">>)

\* C18: for every text, json_str_parser_all_optimized returns what
\* JSONParserOptimized().parse returns with the six built-in strategies,
\* although it skips attempts on unchanged text and repairs with
\* repair_json_fast.
C18_OptimizedAsBuiltIn ==
  pc = "done" => result = json_str_parser_all_optimized(json_str)

\* C18 witness: parse decoded a text with single quotes and a form feed by
\* its sixth strategy, the deep repair
C18_Witness ==
  /\ pc = "done" /\ json_str = PyStr(T_sqff) /\ winner = 6
  /\ result = PyDict(<< <<(<<"a">>), PyInt(1)>> >>)

(***************************************************************************)
(* Termination of parse                                                    *)
(***************************************************************************)
\* C15: a call of parse applies each configured strategy at most once: the
\* transforms invoked in one call are at most as many as the strategies
\* configured when the call started, also when a custom transform calls
\* add_custom_strategy on the parser that is iterating.
C15_AtMostOncePerStrategy ==
  /\ Len(applied) <= n0
  /\ \A i, j \in 1..Len(applied) : applied[i] = applied[j] => i = j

(***************************************************************************)
(* The cache bypassed                                                      *)
(***************************************************************************)
\* what a call with use_cache=False, or on a value that is not text, does
BypassStep ==
  last'.op = "call" /\ (~last'.use_cache \/ ~IsStr(last'.key))
    => /\ CacheView' = CacheView
       /\ last'.exc = "none"
       /\ IF IsStr(last'.key)
          THEN last'.ran /\ last'.val = json_str_parser_all_optimized(last'.key)
          ELSE ~last'.ran /\ last'.val = EmptyDict

\* C16: json_str_parser_all_cached(s, use_cache=False) never reads the
\* cache (it runs the pipeline also when s is a stored key) and leaves the
\* cache as it was, no entry added, removed or replaced; a call on a value
\* that is not text returns {} and leaves the cache as it was.
C16_BypassIsFrame == [][BypassStep]_vars

\* C16 witness: a bypassing call on a stored key returned the pipeline's
\* value, which the stored entry, changed through an earlier result, no
\* longer equals
C16_Witness ==
  /\ last.op = "call" /\ ~last.use_cache /\ IsStr(last.key) /\ HadKey(last)
  /\ last.ran
  /\ CacheView[Payload(last.key)] # last.val

(***************************************************************************)
(* Properties of the cache under concurrent callers                        *)
(***************************************************************************)
\* C12: with callers of json_str_parser_all_cached interleaved between the
\* membership test, the pipeline, the size test and the insert, and no
\* caller changing a result, every call returns the value that
\* json_str_parser_all_optimized returns for its input, and every stored
\* entry is the pipeline's result for its key, whichever insert came last.
C12_RaceIsBenign ==
  /\ \A c \in Callers :
       /\ ~At(c, "raised")
       /\ At(c, "done") => callers[c].result = json_str_parser_all_optimized(callers[c].json_str)
  /\ \A k \in DOMAIN shared : shared[k] = json_str_parser_all_optimized(PyStr(k))

\* C17: under any interleaving of json_str_parser_all_cached calls, the
\* size test of one call apart from its insert by steps of another, the
\* cache never holds more than _cache_size_limit entries.
C17_BoundUnderRace == Cardinality(DOMAIN shared) <= cache_size_limit
====
